---- MODULE Spec2Model ----
(***************************************************************************)
(* git-distance: the metric functions of the command line tool and its     *)
(* runner `run`.                                                           *)
(*                                                                         *)
(* Strings are sequences of one-character strings.  The code indexes from  *)
(* 0; the operators below keep the code's 0-based indices and read a       *)
(* string through charAt.  JavaScript numbers that are not integers (the   *)
(* Jaro-Winkler values) are exact fractions <<numerator, denominator>> in  *)
(* lowest terms; a denominator of 0 stands for a result that is no number. *)
(***************************************************************************)
EXTENDS Integers, Sequences, FiniteSets, TLC

\* ------------------------------------------------------------------ bounds

\* longest string over Letters given to a metric function
MaxLen == 5
\* longest string over Letters and white space given to a metric function
MaxWsLen == 3

\* longest command line
MaxArgs == 3
\* longest list of changed files
MaxFiles == 2

\* longest string an edit script works on
MaxEditLen == 3
\* longest edit script
MaxEdits == 2

Letters == {"a", "b"}
EditLetters == {"a", "b", "c"}
WsChars == {"a", " ", "\n"}

\* ----------------------------------------------------------------- helpers

Max(x, y) == IF x >= y THEN x ELSE y
Min(x, y) == IF x <= y THEN x ELSE y
Abs(x) == IF x < 0 THEN -x ELSE x

StringsUpTo(alphabet, n) == UNION {[1..k -> alphabet] : k \in 0..n}

\* s[i] of JavaScript: the character at 0-based index i, undefined outside
charAt(s, i) == IF i >= 0 /\ i < Len(s) THEN s[i + 1] ELSE "undefined"

\* a.fill(v) for a fresh Array(n)
ArrayFill(n, v) == [k \in 1..n |-> v]

RECURSIVE GCD(_, _)
GCD(x, y) == IF y = 0 THEN x ELSE GCD(y, x % y)

\* ------------------------------------------------- numbers (exact fractions)

NaN == <<0, 0>>
IsNumber(x) == x[2] # 0
RNorm(n, d) ==
    IF d = 0 THEN NaN
    ELSE LET g == GCD(Abs(n), Abs(d))
             s == IF d < 0 THEN -1 ELSE 1
         IN  <<(s * n) \div g, (s * d) \div g>>
Num(n) == <<n, 1>>
RAdd(x, y) == IF IsNumber(x) /\ IsNumber(y)
              THEN RNorm(x[1] * y[2] + y[1] * x[2], x[2] * y[2]) ELSE NaN
RSub(x, y) == IF IsNumber(x) /\ IsNumber(y)
              THEN RNorm(x[1] * y[2] - y[1] * x[2], x[2] * y[2]) ELSE NaN
RMul(x, y) == IF IsNumber(x) /\ IsNumber(y)
              THEN RNorm(x[1] * y[1], x[2] * y[2]) ELSE NaN
RDiv(x, y) == IF IsNumber(x) /\ IsNumber(y)
              THEN RNorm(x[1] * y[2], x[2] * y[1]) ELSE NaN
RLeq(x, y) == x[1] * y[2] <= y[1] * x[2]

\* ----------------------------------------------------------- hammingDistance

\* the mutant pads on the left, as padStart does
padStartInstead(s, n, ch) == [k \in 1..(n - Len(s)) |-> ch] \o s

padEnd(s, n, ch) == s \o [k \in 1..(n - Len(s)) |-> ch]

hammingDistance(str1, str2) ==
    LET len1 == Len(str1)
        len2 == Len(str2)
        maxLen == Max(len1, len2)
        padded1 == padEnd(str1, maxLen, " ")
        padded2 == padEnd(str2, maxLen, " ")
    IN  Cardinality({i \in 0..(maxLen - 1) : charAt(padded1, i) # charAt(padded2, i)})

\* -------------------------------------------------------- calculateAdditions

calculateAdditions(str1, str2) == Len(str2) - Len(str1)

\* -------------------------------------------------------- damerauLevenshtein

\* Array(len1 + 1) of Array(len2 + 1) filled with 0, first column and first
\* row set to their indices
dlInitMatrix(len1, len2) ==
    [i \in 0..len1 |-> [j \in 0..len2 |->
        IF j = 0 THEN i ELSE IF i = 0 THEN j ELSE 0]]

dlCost(str1, str2, i, j) == IF charAt(str1, i - 1) = charAt(str2, j - 1) THEN 0 ELSE 1

\* the mutant tests one half of the swap only
dlTransposedHalf(str1, str2, i, j) ==
    /\ i > 1
    /\ j > 1
    /\ charAt(str1, i - 1) = charAt(str2, j - 2)

\* the guard of the transposition update
dlTransposed(str1, str2, i, j) ==
    /\ i > 1
    /\ j > 1
    /\ charAt(str1, i - 1) = charAt(str2, j - 2)
    /\ charAt(str1, i - 2) = charAt(str2, j - 1)

\* the mutant leaves the transposition update out
dlCellNoTransposition(matrix, str1, str2, i, j) ==
    LET cost == dlCost(str1, str2, i, j)
    IN  Min(Min(matrix[i - 1][j] + 1,
                matrix[i][j - 1] + 1),
            matrix[i - 1][j - 1] + cost)

dlCell(matrix, str1, str2, i, j) ==
    LET cost == dlCost(str1, str2, i, j)
        first == Min(Min(matrix[i - 1][j] + 1,
                         matrix[i][j - 1] + 1),
                     matrix[i - 1][j - 1] + cost)
    IN  IF dlTransposed(str1, str2, i, j)
        THEN Min(first, matrix[i - 2][j - 2] + cost)
        ELSE first

\* the two nested for loops, cell (i, j) onwards
RECURSIVE dlFill(_, _, _, _, _)
dlFill(matrix, str1, str2, i, j) ==
    IF i > Len(str1) THEN matrix
    ELSE IF j > Len(str2) THEN dlFill(matrix, str1, str2, i + 1, 1)
    ELSE dlFill([matrix EXCEPT ![i][j] = dlCell(matrix, str1, str2, i, j)],
                str1, str2, i, j + 1)

damerauLevenshtein(str1, str2) ==
    LET len1 == Len(str1)
        len2 == Len(str2)
    IN  IF len1 = 0 THEN len2
        ELSE IF len2 = 0 THEN len1
        ELSE dlFill(dlInitMatrix(len1, len2), str1, str2, 1, 1)[len1][len2]

\* ------------------------------------------------------------------ jaroWinkler

jwMatchWindow(str1, str2) == (Max(Len(str1), Len(str2)) \div 2) - 1

\* the window of the mutant stops one position early on the right
jwFirstMatchShortWindow(str1, str2, str2Matches, i, matchWindow) ==
    LET start == Max(0, i - matchWindow)
        end == Min(i + matchWindow, Len(str2))
        free == {j \in start..(end - 1) :
                    ~(str2Matches[j + 1] \/ charAt(str1, i) # charAt(str2, j))}
    IN  IF free = {} THEN -1 ELSE CHOOSE j \in free : \A x \in free : j <= x

\* the inner for loop: the first j of the window that is free and equal, or -1
jwFirstMatch(str1, str2, str2Matches, i, matchWindow) ==
    LET start == Max(0, i - matchWindow)
        end == Min(i + matchWindow + 1, Len(str2))
        free == {j \in start..(end - 1) :
                    ~(str2Matches[j + 1] \/ charAt(str1, i) # charAt(str2, j))}
    IN  IF free = {} THEN -1 ELSE CHOOSE j \in free : \A x \in free : j <= x

\* the mutant marks str1Matches[i] only and leaves str2Matches[j] free
jwMatchStepNoMark(str1, str2, st, i, matchWindow) ==
    LET j == jwFirstMatch(str1, str2, st.m2, i, matchWindow)
    IN  IF j = -1 THEN st
        ELSE [m1 |-> [st.m1 EXCEPT ![i + 1] = TRUE],
              m2 |-> st.m2,
              matches |-> st.matches + 1]

\* one iteration of the outer matching loop on st = [m1, m2, matches]
jwMatchStep(str1, str2, st, i, matchWindow) ==
    LET j == jwFirstMatch(str1, str2, st.m2, i, matchWindow)
    IN  IF j = -1 THEN st
        ELSE [m1 |-> [st.m1 EXCEPT ![i + 1] = TRUE],
              m2 |-> [st.m2 EXCEPT ![j + 1] = TRUE],
              matches |-> st.matches + 1]

RECURSIVE jwMatchLoop(_, _, _, _, _)
jwMatchLoop(str1, str2, st, i, matchWindow) ==
    IF i >= Len(str1) THEN st
    ELSE jwMatchLoop(str1, str2, jwMatchStep(str1, str2, st, i, matchWindow),
                     i + 1, matchWindow)

jwMatches(str1, str2) ==
    jwMatchLoop(str1, str2,
                [m1 |-> ArrayFill(Len(str1), FALSE),
                 m2 |-> ArrayFill(Len(str2), FALSE),
                 matches |-> 0],
                0, jwMatchWindow(str1, str2))

\* while (!str2Matches[k]) k++ : outside the array the read is undefined, the
\* test stays true and the loop never ends; that outcome is k = length
RECURSIVE jwSkip(_, _)
jwSkip(str2Matches, k) ==
    IF k >= Len(str2Matches) THEN Len(str2Matches)
    ELSE IF str2Matches[k + 1] THEN k
    ELSE jwSkip(str2Matches, k + 1)

\* the transposition loop from i onwards; acc = [k, transpositions, inBounds]
RECURSIVE jwTransLoop(_, _, _, _, _)
jwTransLoop(str1, str2, st, i, acc) ==
    IF i >= Len(str1) \/ ~acc.inBounds THEN acc
    ELSE IF ~st.m1[i + 1] THEN jwTransLoop(str1, str2, st, i + 1, acc)
    ELSE LET k == jwSkip(st.m2, acc.k)
         IN  IF k >= Len(str2)
             THEN [acc EXCEPT !.k = k, !.inBounds = FALSE]
             ELSE jwTransLoop(str1, str2, st, i + 1,
                    [k |-> k + 1,
                     transpositions |-> acc.transpositions
                        + (IF charAt(str1, i) # charAt(str2, k) THEN 1 ELSE 0),
                     inBounds |-> TRUE])

jwTranspositions(str1, str2, st) ==
    jwTransLoop(str1, str2, st, 0, [k |-> 0, transpositions |-> 0, inBounds |-> TRUE])

RECURSIVE jwPrefixLoop(_, _, _, _)
jwPrefixLoop(str1, str2, i, maxPrefix) ==
    IF i < maxPrefix /\ charAt(str1, i) = charAt(str2, i)
    THEN jwPrefixLoop(str1, str2, i + 1, maxPrefix)
    ELSE i

jwPrefixLen(str1, str2) ==
    jwPrefixLoop(str1, str2, 0, Min(4, Min(Len(str1), Len(str2))))

\* the mutant averages the three terms over two
jwJaroOverTwo(str1, str2, matches, transpositions) ==
    RDiv(RAdd(RAdd(RDiv(Num(matches), Num(Len(str1))),
                   RDiv(Num(matches), Num(Len(str2)))),
              RDiv(RSub(Num(matches), RDiv(Num(transpositions), Num(2))),
                   Num(matches))),
         Num(2))

jwJaro(str1, str2, matches, transpositions) ==
    RDiv(RAdd(RAdd(RDiv(Num(matches), Num(Len(str1))),
                   RDiv(Num(matches), Num(Len(str2)))),
              RDiv(RSub(Num(matches), RDiv(Num(transpositions), Num(2))),
                   Num(matches))),
         Num(3))

jaroWinkler(str1, str2) ==
    IF str1 = str2 THEN Num(0)
    ELSE IF Len(str1) = 0 \/ Len(str2) = 0 THEN Num(1)
    ELSE LET st == jwMatches(str1, str2)
         IN  IF st.matches = 0 THEN Num(1)
             ELSE LET tr == jwTranspositions(str1, str2, st)
                      jaro == jwJaro(str1, str2, st.matches, tr.transpositions)
                      prefixLen == jwPrefixLen(str1, str2)
                      winkler == RAdd(jaro,
                                      RMul(RMul(<<1, 10>>, Num(prefixLen)),
                                           RSub(Num(1), jaro)))
                  IN  IF tr.inBounds THEN RSub(Num(1), winkler) ELSE NaN

\* ------------------------------------------------- longestCommonSubsequence

lcsCell(dp, str1, str2, i, j) ==
    IF charAt(str1, i - 1) = charAt(str2, j - 1)
    THEN dp[i - 1][j - 1] + 1
    ELSE Max(dp[i - 1][j], dp[i][j - 1])

RECURSIVE lcsFill(_, _, _, _, _)
lcsFill(dp, str1, str2, i, j) ==
    IF i > Len(str1) THEN dp
    ELSE IF j > Len(str2) THEN lcsFill(dp, str1, str2, i + 1, 1)
    ELSE lcsFill([dp EXCEPT ![i][j] = lcsCell(dp, str1, str2, i, j)],
                 str1, str2, i, j + 1)

longestCommonSubsequence(str1, str2) ==
    LET len1 == Len(str1)
        len2 == Len(str2)
    IN  IF len1 = 0 \/ len2 = 0 THEN Max(len1, len2)
        ELSE LET dp == lcsFill([i \in 0..len1 |-> [j \in 0..len2 |-> 0]],
                               str1, str2, 1, 1)
                 lcsLength == dp[len1][len2]
                 maxLength == Max(len1, len2)
             IN  maxLength - lcsLength

\* ------------------------------------------------------- lineCountDifference

\* s.split(sep) for a one-character separator, from 0-based index i onwards;
\* segs is the list of segments so far, the last one still open
RECURSIVE splitFrom(_, _, _, _)
splitFrom(s, sep, i, segs) ==
    IF i >= Len(s) THEN segs
    ELSE IF charAt(s, i) = sep
         THEN splitFrom(s, sep, i + 1, Append(segs, <<>>))
         ELSE splitFrom(s, sep, i + 1,
                        [segs EXCEPT ![Len(segs)] = Append(@, charAt(s, i))])

split(s, sep) == splitFrom(s, sep, 0, << <<>> >>)

lineCountDifference(str1, str2) ==
    LET lines1 == Len(split(str1, "\n"))
        lines2 == Len(split(str2, "\n"))
    IN  lines2 - lines1

\* ------------------------------------------------------- wordCountDifference

\* the characters \s matches, among those of the model
IsWhitespace(c) == c \in {" ", "\n", "\t", "\r"}

\* s.split(/\s+/): a maximal run of white space is one separator
RECURSIVE splitWsFrom(_, _, _, _)
splitWsFrom(s, i, segs, inRun) ==
    IF i >= Len(s) THEN segs
    ELSE IF IsWhitespace(charAt(s, i))
         THEN splitWsFrom(s, i + 1, IF inRun THEN segs ELSE Append(segs, <<>>), TRUE)
         ELSE splitWsFrom(s, i + 1,
                          [segs EXCEPT ![Len(segs)] = Append(@, charAt(s, i))], FALSE)

splitWs(s) == splitWsFrom(s, 0, << <<>> >>, FALSE)

\* .filter(Boolean) on strings: the empty string is dropped
filterBoolean(segs) == SelectSeq(segs, LAMBDA w : w # <<>>)

wordCountDifference(str1, str2) ==
    LET words1 == Len(filterBoolean(splitWs(str1)))
        words2 == Len(filterBoolean(splitWs(str2)))
    IN  words2 - words1

\* ------------------------------------- distance (package fastest-levenshtein)

levCell(matrix, a, b, i, j) ==
    Min(Min(matrix[i - 1][j] + 1, matrix[i][j - 1] + 1),
        matrix[i - 1][j - 1] + (IF charAt(a, i - 1) = charAt(b, j - 1) THEN 0 ELSE 1))

RECURSIVE levFill(_, _, _, _, _)
levFill(matrix, a, b, i, j) ==
    IF i > Len(a) THEN matrix
    ELSE IF j > Len(b) THEN levFill(matrix, a, b, i + 1, 1)
    ELSE levFill([matrix EXCEPT ![i][j] = levCell(matrix, a, b, i, j)], a, b, i, j + 1)

distance(a, b) ==
    levFill([i \in 0..Len(a) |-> [j \in 0..Len(b) |->
                IF j = 0 THEN i ELSE IF i = 0 THEN j ELSE 0]],
            a, b, 1, 1)[Len(a)][Len(b)]

\* ========================================================================= run

includes(arr, x) == \E k \in 1..Len(arr) : arr[k] = x

wantsHelp(args) == Len(args) = 0 \/ includes(args, "--help") \/ includes(args, "-h")

isList(args) == includes(args, "--list") \/ includes(args, "-L")

distanceFlags ==
    <<"--hamming", "--additions", "--damerau-levenshtein", "--jaro-winkler",
      "--lcs", "--lines", "--words">>

selectedDistanceFlags(args) == SelectSeq(distanceFlags, LAMBDA flag : includes(args, flag))

\* the mutant lets two measures through
tooManyMeasuresOffByOne(selected) == Len(selected) > 2

tooManyMeasures(selected) == Len(selected) > 1

distanceMeasureOf(selected) == IF Len(selected) > 0 THEN selected[1] ELSE "levenshtein"

branchArgsOf(args) ==
    SelectSeq(args, LAMBDA arg :
        /\ arg # "--verbose"
        /\ arg # "-V"
        /\ arg # "--list"
        /\ arg # "-L"
        /\ ~includes(distanceFlags, arg))

\* the mutant never takes the early exit
noChangedFilesNever(fileList) == Len(fileList) < 0

noChangedFiles(fileList) == Len(fileList) = 0

\* what git answers about one file of one branch: cat-file -e, then show
GitFileOutcomes(contents) ==
    {[exists |-> FALSE, showOk |-> FALSE, content |-> <<>>],
     [exists |-> TRUE, showOk |-> FALSE, content |-> <<>>]}
        \cup {[exists |-> TRUE, showOk |-> TRUE, content |-> c] : c \in contents}

fileExistsInBranch(git) == git.exists

getFileFromBranch(git) ==
    IF ~fileExistsInBranch(git) THEN <<>>
    ELSE IF git.showOk THEN git.content
    ELSE <<>>

\* the mutant exchanges two cases of the switch
getDistanceSwapped(distanceMeasure, contentA, contentB) ==
    CASE distanceMeasure = "--hamming" ->
            [fn |-> "hammingDistance", value |-> Num(hammingDistance(contentA, contentB))]
      [] distanceMeasure = "--additions" ->
            [fn |-> "calculateAdditions", value |-> Num(calculateAdditions(contentA, contentB))]
      [] distanceMeasure = "--damerau-levenshtein" ->
            [fn |-> "longestCommonSubsequence",
             value |-> Num(longestCommonSubsequence(contentA, contentB))]
      [] distanceMeasure = "--jaro-winkler" ->
            [fn |-> "jaroWinkler", value |-> jaroWinkler(contentA, contentB)]
      [] distanceMeasure = "--lcs" ->
            [fn |-> "damerauLevenshtein", value |-> Num(damerauLevenshtein(contentA, contentB))]
      [] distanceMeasure = "--lines" ->
            [fn |-> "lineCountDifference", value |-> Num(lineCountDifference(contentA, contentB))]
      [] distanceMeasure = "--words" ->
            [fn |-> "wordCountDifference", value |-> Num(wordCountDifference(contentA, contentB))]
      [] OTHER ->
            [fn |-> "distance", value |-> Num(distance(contentA, contentB))]

\* the switch of getDistance: the function called and what it returns
getDistance(distanceMeasure, contentA, contentB) ==
    CASE distanceMeasure = "--hamming" ->
            [fn |-> "hammingDistance", value |-> Num(hammingDistance(contentA, contentB))]
      [] distanceMeasure = "--additions" ->
            [fn |-> "calculateAdditions", value |-> Num(calculateAdditions(contentA, contentB))]
      [] distanceMeasure = "--damerau-levenshtein" ->
            [fn |-> "damerauLevenshtein", value |-> Num(damerauLevenshtein(contentA, contentB))]
      [] distanceMeasure = "--jaro-winkler" ->
            [fn |-> "jaroWinkler", value |-> jaroWinkler(contentA, contentB)]
      [] distanceMeasure = "--lcs" ->
            [fn |-> "longestCommonSubsequence",
             value |-> Num(longestCommonSubsequence(contentA, contentB))]
      [] distanceMeasure = "--lines" ->
            [fn |-> "lineCountDifference", value |-> Num(lineCountDifference(contentA, contentB))]
      [] distanceMeasure = "--words" ->
            [fn |-> "wordCountDifference", value |-> Num(wordCountDifference(contentA, contentB))]
      [] OTHER ->
            [fn |-> "distance", value |-> Num(distance(contentA, contentB))]

\* the mutant adds the magnitude of each value
addToTotalClamped(total, dist) == RAdd(total, <<Abs(dist[1]), dist[2]>>)

\* total += dist
addToTotal(total, dist) == RAdd(total, dist)

\* =================================================================== state

VARIABLES
    \* a metric function applied to a pair of strings
    str1, str2, fn, result,
    \* run: the command line; what it named (kept for the whole run); position
    args, asked, pc,
    \* run: the locals list, distanceMeasure, branch1, branch2, files
    list, distanceMeasure, branch1, branch2, files,
    \* run: the loop: files done, total, the pair of the last iteration
    idx, total, contentA, contentB, emptiedA, emptiedB, dist,
    \* run: the pairs evaluated so far, in order: [file, value, fn]
    rows,
    \* run: what was printed, how the process ended, the requests made to git
    stdout, stderr, exitCode, gitCalls,
    \* an edit script: the string it started from, the string it has reached,
    \* its length, and whether it has worked from left to right so far, each
    \* operation at or after edFrontier, the end of the one before
    edSrc, edCur, edCount, edFrontier, edOrdered

metricVars == <<str1, str2, fn, result>>
runVars == <<args, asked, pc, list, distanceMeasure, branch1, branch2, files,
             idx, total, contentA, contentB, emptiedA, emptiedB, dist, rows,
             stdout, stderr, exitCode, gitCalls>>
editVars == <<edSrc, edCur, edCount, edFrontier, edOrdered>>
vars == <<metricVars, runVars, editVars>>

MetricIdle == str1 = <<>> /\ str2 = <<>> /\ fn = "none" /\ result = NaN

RunIdle ==
    /\ args = <<>>
    /\ asked = [measures |-> {}, help |-> FALSE, unknown |-> {}]
    /\ pc = "idle"
    /\ list = FALSE
    /\ distanceMeasure = "levenshtein"
    /\ branch1 = "undefined"
    /\ branch2 = "undefined"
    /\ files = <<>>
    /\ idx = 0
    /\ total = Num(0)
    /\ contentA = <<>>
    /\ contentB = <<>>
    /\ emptiedA = FALSE
    /\ emptiedB = FALSE
    /\ dist = Num(0)
    /\ rows = <<>>
    /\ stdout = <<>>
    /\ stderr = <<>>
    /\ exitCode = -1
    /\ gitCalls = [revParse |-> 0, diff |-> 0, file |-> 0]

EditIdle ==
    edSrc = <<>> /\ edCur = <<>> /\ edCount = 0 /\ edFrontier = 0 /\ edOrdered = TRUE

\* ------------------------------------------ the metric functions, one call

MetricInputs ==
    (StringsUpTo(Letters, MaxLen) \X StringsUpTo(Letters, MaxLen))
        \cup (StringsUpTo(WsChars, MaxWsLen) \X StringsUpTo(WsChars, MaxWsLen))

MetricInit ==
    /\ \E p \in MetricInputs : str1 = p[1] /\ str2 = p[2]
    /\ fn = "none"
    /\ result = NaN
    /\ RunIdle
    /\ EditIdle

Call(name, value) ==
    /\ fn = "none"
    /\ fn' = name
    /\ result' = value
    /\ UNCHANGED <<str1, str2, runVars, editVars>>

CallHammingDistance == Call("hammingDistance", Num(hammingDistance(str1, str2)))
CallCalculateAdditions == Call("calculateAdditions", Num(calculateAdditions(str1, str2)))
CallDamerauLevenshtein == Call("damerauLevenshtein", Num(damerauLevenshtein(str1, str2)))
CallJaroWinkler == Call("jaroWinkler", jaroWinkler(str1, str2))
CallLongestCommonSubsequence ==
    Call("longestCommonSubsequence", Num(longestCommonSubsequence(str1, str2)))
CallLineCountDifference == Call("lineCountDifference", Num(lineCountDifference(str1, str2)))
CallWordCountDifference == Call("wordCountDifference", Num(wordCountDifference(str1, str2)))

MetricNext ==
    \/ CallHammingDistance
    \/ CallCalculateAdditions
    \/ CallDamerauLevenshtein
    \/ CallJaroWinkler
    \/ CallLongestCommonSubsequence
    \/ CallLineCountDifference
    \/ CallWordCountDifference

SpecMetric == MetricInit /\ [][MetricNext]_vars

\* ------------------------------------------------------------- run, by step

Tokens ==
    {"main", "dev", "--foo", "--verbose", "--list", "--help"}
        \cup {distanceFlags[k] : k \in 1..Len(distanceFlags)}

\* the tokens of the inputs that look like an option and are none
UnknownOptions == {"--foo"}

CurrentBranch == "work"
Files == {"f1", "f2"}
FileContents == {<<"a", "a", "b", " ">>, <<"\n", "b", "a", "a">>}

\* what a command line names: its distance measures, --help, unknown options
Asked(argv) ==
    LET named == {argv[k] : k \in 1..Len(argv)}
    IN  [measures |-> named \cap {distanceFlags[k] : k \in 1..Len(distanceFlags)},
         help |-> "--help" \in named \/ "-h" \in named,
         unknown |-> named \cap UnknownOptions]

RunInit ==
    /\ MetricIdle
    /\ EditIdle
    /\ \E argv \in StringsUpTo(Tokens, MaxArgs) : args = argv /\ asked = Asked(argv)
    /\ pc = "start"
    /\ list = FALSE
    /\ distanceMeasure = "levenshtein"
    /\ branch1 = "undefined"
    /\ branch2 = "undefined"
    /\ files = <<>>
    /\ idx = 0
    /\ total = Num(0)
    /\ contentA = <<>>
    /\ contentB = <<>>
    /\ emptiedA = FALSE
    /\ emptiedB = FALSE
    /\ dist = Num(0)
    /\ rows = <<>>
    /\ stdout = <<>>
    /\ stderr = <<>>
    /\ exitCode = -1
    /\ gitCalls = [revParse |-> 0, diff |-> 0, file |-> 0]

loopVars == <<files, idx, total, contentA, contentB, emptiedA, emptiedB, dist, rows>>

\* process.exit(code), or the end of run, or an uncaught exception (code 1)
Exit(code) == pc' = "exited" /\ exitCode' = code

\* lines 329-354
ShowHelp ==
    /\ pc = "start"
    /\ wantsHelp(args)
    /\ stdout' = Append(stdout, <<"usage">>)
    /\ Exit(0)
    /\ UNCHANGED <<metricVars, editVars, args, asked, list, distanceMeasure, branch1, branch2,
                   loopVars, stderr, gitCalls>>

\* lines 356-379
RejectMeasures ==
    /\ pc = "start"
    /\ ~wantsHelp(args)
    /\ tooManyMeasures(selectedDistanceFlags(args))
    /\ list' = isList(args)
    /\ stderr' = Append(stderr, <<"multiple-measures", selectedDistanceFlags(args)>>)
    /\ Exit(1)
    /\ UNCHANGED <<metricVars, editVars, args, asked, distanceMeasure, branch1, branch2,
                   loopVars, stdout, gitCalls>>

\* lines 356-410 when the measures are at most one
Parsed ==
    /\ pc = "start"
    /\ ~wantsHelp(args)
    /\ ~tooManyMeasures(selectedDistanceFlags(args))
    /\ list' = isList(args)
    /\ distanceMeasure' = distanceMeasureOf(selectedDistanceFlags(args))

\* lines 395-396: getCurrentBranch throws 'Not in a git repository'
CurrentBranchFails ==
    /\ Parsed
    /\ Len(branchArgsOf(args)) = 1
    /\ gitCalls' = [gitCalls EXCEPT !.revParse = @ + 1]
    /\ stderr' = Append(stderr, <<"uncaught", "Not in a git repository">>)
    /\ Exit(1)
    /\ UNCHANGED <<metricVars, editVars, args, asked, branch1, branch2, loopVars, stdout>>

\* lines 395-406; args is not read after line 391 and is dropped here
SelectBranches ==
    /\ Parsed
    /\ LET branchArgs == branchArgsOf(args)
       IN  \/ /\ Len(branchArgs) = 1
              /\ branch1' = CurrentBranch
              /\ branch2' = branchArgs[1]
              /\ gitCalls' = [gitCalls EXCEPT !.revParse = @ + 1]
           \/ /\ Len(branchArgs) = 2
              /\ branch1' = branchArgs[1]
              /\ branch2' = branchArgs[2]
              /\ UNCHANGED gitCalls
    /\ args' = <<>>
    /\ pc' = "diff"
    /\ UNCHANGED <<metricVars, editVars, asked, loopVars, stdout, stderr, exitCode>>

\* lines 407-410
RejectBranchCount ==
    /\ Parsed
    /\ Len(branchArgsOf(args)) \notin {1, 2}
    /\ stderr' = Append(stderr, <<"invalid-arguments">>)
    /\ Exit(1)
    /\ UNCHANGED <<metricVars, editVars, args, asked, branch1, branch2, loopVars, stdout, gitCalls>>

\* line 412: getChangedFiles throws 'Failed to compare branches'
ChangedFilesFails ==
    /\ pc = "diff"
    /\ gitCalls' = [gitCalls EXCEPT !.diff = @ + 1]
    /\ stderr' = Append(stderr, <<"uncaught", "Failed to compare branches">>)
    /\ Exit(1)
    /\ UNCHANGED <<metricVars, editVars, args, asked, list, distanceMeasure, branch1, branch2,
                   loopVars, stdout>>

\* lines 412-417 and 442-443: the list git diff --name-only gives
ChangedFiles ==
    /\ pc = "diff"
    /\ gitCalls' = [gitCalls EXCEPT !.diff = @ + 1]
    /\ \E found \in StringsUpTo(Files, MaxFiles) :
        /\ files' = found
        /\ IF noChangedFiles(found)
           THEN /\ stdout' = Append(stdout, <<"no-changed-files">>)
                /\ Exit(0)
           ELSE /\ pc' = "loop"
                /\ UNCHANGED <<stdout, exitCode>>
    /\ total' = Num(0)
    /\ UNCHANGED <<metricVars, editVars, args, asked, list, distanceMeasure, branch1, branch2,
                   idx, contentA, contentB, emptiedA, emptiedB, dist, rows, stderr>>

\* lines 445-454: one iteration of for (const file of files)
EvaluateFile ==
    /\ pc = "loop"
    /\ idx < Len(files)
    /\ \E gitA \in GitFileOutcomes(FileContents), gitB \in GitFileOutcomes(FileContents) :
        LET file == files[idx + 1]
            a == getFileFromBranch(gitA)
            b == getFileFromBranch(gitB)
            d == getDistance(distanceMeasure, a, b)
        IN  /\ contentA' = a
            /\ contentB' = b
            /\ emptiedA' = (~gitA.exists \/ ~gitA.showOk)
            /\ emptiedB' = (~gitB.exists \/ ~gitB.showOk)
            /\ dist' = d.value
            /\ total' = addToTotal(total, d.value)
            /\ rows' = Append(rows, [file |-> file, value |-> d.value, fn |-> d.fn])
            /\ stdout' = IF list THEN Append(stdout, <<"row", file, d.value>>) ELSE stdout
    /\ idx' = idx + 1
    /\ gitCalls' = [gitCalls EXCEPT !.file = @ + 2]
    /\ UNCHANGED <<metricVars, editVars, args, asked, pc, list, distanceMeasure, branch1, branch2,
                   files, stderr, exitCode>>

\* lines 456-459
PrintTotal ==
    /\ pc = "loop"
    /\ idx = Len(files)
    /\ stdout' = Append(IF list THEN Append(stdout, <<"separator">>) ELSE stdout,
                        <<"total", total>>)
    /\ Exit(0)
    /\ UNCHANGED <<metricVars, editVars, args, asked, list, distanceMeasure, branch1, branch2,
                   loopVars, stderr, gitCalls>>

Init == RunInit

Next ==
    \/ ShowHelp
    \/ RejectMeasures
    \/ CurrentBranchFails
    \/ SelectBranches
    \/ RejectBranchCount
    \/ ChangedFilesFails
    \/ ChangedFiles
    \/ EvaluateFile
    \/ PrintTotal

Spec == Init /\ [][Next]_vars

\* ------------------------------------------------------------ edit scripts

\* the elementary edit operations at 0-based position p of s
insertAt(s, p, ch) == SubSeq(s, 1, p) \o <<ch>> \o SubSeq(s, p + 1, Len(s))
deleteAt(s, p) == SubSeq(s, 1, p) \o SubSeq(s, p + 2, Len(s))
substituteAt(s, p, ch) == [s EXCEPT ![p + 1] = ch]
transposeAt(s, p) == [s EXCEPT ![p + 1] = s[p + 2], ![p + 2] = s[p + 1]]

EditInit ==
    /\ MetricIdle
    /\ RunIdle
    /\ edSrc \in StringsUpTo(EditLetters, MaxEditLen)
    /\ edCur = edSrc
    /\ edCount = 0
    /\ edFrontier = 0
    /\ edOrdered = TRUE

\* one more operation at position p, which ends at position next
Edited(p, next) ==
    /\ edCount < MaxEdits
    /\ edCount' = edCount + 1
    /\ edOrdered' = (edOrdered /\ p >= edFrontier)
    /\ edFrontier' = IF edOrdered /\ p >= edFrontier THEN next ELSE 0
    /\ UNCHANGED <<edSrc, metricVars, runVars>>

Insert ==
    \E p \in 0..Len(edCur), ch \in EditLetters :
        /\ Len(edCur) < MaxEditLen
        /\ edCur' = insertAt(edCur, p, ch)
        /\ Edited(p, p + 1)

Delete ==
    \E p \in 0..(Len(edCur) - 1) :
        /\ edCur' = deleteAt(edCur, p)
        /\ Edited(p, p)

Substitute ==
    \E p \in 0..(Len(edCur) - 1), ch \in EditLetters :
        /\ ch # charAt(edCur, p)
        /\ edCur' = substituteAt(edCur, p, ch)
        /\ Edited(p, p + 1)

Transpose ==
    \E p \in 0..(Len(edCur) - 2) :
        /\ charAt(edCur, p) # charAt(edCur, p + 1)
        /\ edCur' = transposeAt(edCur, p)
        /\ Edited(p, p + 2)

EditNext == Insert \/ Delete \/ Substitute \/ Transpose

SpecEdit == EditInit /\ [][EditNext]_vars

\* the least number of operations of a script that turns a into b from left
\* to right: a character kept, substituted, deleted or inserted, or two
\* adjacent characters transposed, and nothing edited twice
RECURSIVE restrictedEdits(_, _)
restrictedEdits(a, b) ==
    IF a = <<>> THEN Len(b)
    ELSE IF b = <<>> THEN Len(a)
    ELSE LET keep == restrictedEdits(Tail(a), Tail(b)) + (IF Head(a) = Head(b) THEN 0 ELSE 1)
             del == restrictedEdits(Tail(a), b) + 1
             ins == restrictedEdits(a, Tail(b)) + 1
             three == Min(keep, Min(del, ins))
         IN  IF Len(a) > 1 /\ Len(b) > 1 /\ a[1] = b[2] /\ a[2] = b[1] /\ a[1] # a[2]
             THEN Min(three, restrictedEdits(Tail(Tail(a)), Tail(Tail(b))) + 1)
             ELSE three

\* C7 as stated: damerauLevenshtein(a, b) is the least number of insertions,
\* deletions, substitutions and adjacent transpositions that turn a into b,
\* so no script that turns a into b is shorter
C7_Original == damerauLevenshtein(edSrc, edCur) <= edCount

\* C7 amended: damerauLevenshtein(a, b) is the least number of operations of
\* a script that works from left to right and edits nothing twice
C7_RestrictedEditDistance ==
    /\ edOrdered => damerauLevenshtein(edSrc, edCur) <= edCount
    /\ damerauLevenshtein(edSrc, edCur) = restrictedEdits(edSrc, edCur)

\* a transposition and one more operation after it, and no shorter way
C7_Witness ==
    /\ edOrdered
    /\ edCount = 2
    /\ Len(edSrc) > 1
    /\ Len(edCur) > 1
    /\ edCur[1] = edSrc[2]
    /\ edCur[2] = edSrc[1]
    /\ edSrc[1] # edSrc[2]
    /\ damerauLevenshtein(edSrc, edCur) = edCount
    /\ distance(edSrc, edCur) > edCount

\* ------------------------------------------------- C1 .. C4, C9, C10 (run)

NoTotalPrinted == \A k \in 1..Len(stdout) : stdout[k][1] # "total"

NothingEvaluated == rows = <<>> /\ gitCalls.diff = 0 /\ gitCalls.file = 0 /\ NoTotalPrinted

MultipleMeasuresReported ==
    /\ pc = "exited"
    /\ exitCode = 1
    /\ Len(stderr) = 1
    /\ stderr[1][1] = "multiple-measures"
    /\ {stderr[1][2][k] : k \in 1..Len(stderr[1][2])} = asked.measures
    /\ NothingEvaluated

\* C1 as stated: whenever the arguments name two or more distance measures,
\* run reports the error and exits with code 1, nothing requested or evaluated
C1_Original ==
    (Cardinality(asked.measures) >= 2 /\ pc # "start") => MultipleMeasuresReported

\* C1 amended: the same, for arguments that contain neither --help nor -h
C1_MultipleMeasuresRejected ==
    (Cardinality(asked.measures) >= 2 /\ ~asked.help /\ pc # "start")
        => MultipleMeasuresReported

C1_Witness ==
    /\ Cardinality(asked.measures) >= 2
    /\ ~asked.help
    /\ pc = "exited"
    /\ exitCode = 1

\* C2 as stated: an option that is no catalogue entry is never taken for a
\* branch name, no pair is evaluated and no total is printed
C2_UnknownMetricRejected ==
    (asked.unknown # {} /\ ~asked.help) =>
        /\ branch1 \notin asked.unknown
        /\ branch2 \notin asked.unknown
        /\ NothingEvaluated

RECURSIVE SumValues(_, _)
SumValues(rs, k) == IF k = 0 THEN Num(0) ELSE RAdd(SumValues(rs, k - 1), rs[k].value)

\* C3: the loop evaluates the entries of files once each, in list order, the
\* running total after k iterations is the sum of the first k values, and the
\* number printed is the sum of all of them
C3_OrderAndSum ==
    /\ Len(rows) = idx
    /\ idx <= Len(files)
    /\ gitCalls.file = 2 * idx
    /\ \A k \in 1..Len(rows) : rows[k].file = files[k]
    /\ total = SumValues(rows, Len(rows))
    /\ list => SelectSeq(stdout, LAMBDA line : line[1] = "row")
                = [k \in 1..Len(rows) |-> <<"row", rows[k].file, rows[k].value>>]
    /\ ~NoTotalPrinted =>
        /\ Len(rows) = Len(files)
        /\ stdout[Len(stdout)] = <<"total", SumValues(rows, Len(files))>>

\* the same file twice, two different values, one of them negative
C3_Witness ==
    /\ pc = "exited"
    /\ ~NoTotalPrinted
    /\ Len(files) = 2
    /\ files[1] = files[2]
    /\ rows[1].value # rows[2].value
    /\ rows[1].value[1] < 0
    /\ total[1] < 0

\* getChangedFiles returned the empty list and run has ended
EndedWithoutChanges ==
    pc = "exited" /\ gitCalls.diff = 1 /\ files = <<>> /\ stderr = <<>>

\* C4 as stated: with an empty list of changed files the run reports total 0
C4_Original ==
    EndedWithoutChanges =>
        /\ rows = <<>>
        /\ exitCode = 0
        /\ \E k \in 1..Len(stdout) : stdout[k] = <<"total", Num(0)>>

\* C4 amended: with an empty list of changed files run evaluates no pair,
\* fetches nothing, prints the line 'No changed files between branches.' and
\* no total, and exits with code 0
C4_NoChangedFiles ==
    EndedWithoutChanges =>
        /\ rows = <<>>
        /\ gitCalls.file = 0
        /\ exitCode = 0
        /\ stdout = << <<"no-changed-files">> >>

C4_Witness == EndedWithoutChanges /\ exitCode = 0 /\ list

\* C9 as stated: a file missing from one branch (or not fetched) is the empty
\* string, and its distance is the length of the content in the other branch
C9_MissingFileDistance ==
    idx > 0 =>
        /\ emptiedA => contentA = <<>>
        /\ emptiedB => contentB = <<>>
        /\ (emptiedA /\ ~emptiedB) => dist = Num(Len(contentB))
        /\ (emptiedB /\ ~emptiedA) => dist = Num(Len(contentA))

\* the function each distance flag names
FlagFunction(flag) ==
    CASE flag = "--hamming" -> "hammingDistance"
      [] flag = "--additions" -> "calculateAdditions"
      [] flag = "--damerau-levenshtein" -> "damerauLevenshtein"
      [] flag = "--jaro-winkler" -> "jaroWinkler"
      [] flag = "--lcs" -> "longestCommonSubsequence"
      [] flag = "--lines" -> "lineCountDifference"
      [] flag = "--words" -> "wordCountDifference"

ValueOf(name, a, b) ==
    CASE name = "hammingDistance" -> Num(hammingDistance(a, b))
      [] name = "calculateAdditions" -> Num(calculateAdditions(a, b))
      [] name = "damerauLevenshtein" -> Num(damerauLevenshtein(a, b))
      [] name = "jaroWinkler" -> jaroWinkler(a, b)
      [] name = "longestCommonSubsequence" -> Num(longestCommonSubsequence(a, b))
      [] name = "lineCountDifference" -> Num(lineCountDifference(a, b))
      [] name = "wordCountDifference" -> Num(wordCountDifference(a, b))
      [] name = "distance" -> Num(distance(a, b))

\* C10: one metric for the whole run: Levenshtein with no distance flag, the
\* function the flag names with one flag, the same for every pair
C10_OneMetric ==
    Cardinality(asked.measures) <= 1 =>
        LET active == IF asked.measures = {} THEN "distance"
                      ELSE FlagFunction(CHOOSE flag \in asked.measures : TRUE)
        IN  /\ \A k \in 1..Len(rows) : rows[k].fn = active
            /\ idx > 0 => dist = ValueOf(active, contentA, contentB)

C10_Witness ==
    /\ asked.measures = {"--lcs"}
    /\ Len(rows) = 2
    /\ contentA # contentB
    /\ contentA # <<>>
    /\ contentB # <<>>
    /\ rows[1].value # rows[2].value

\* ------------------------------------------------------------- C5 .. C8

\* the matching and the transposition scan took place (neither early return)
JwScanned(a, b) == a # b /\ Len(a) > 0 /\ Len(b) > 0 /\ jwMatches(a, b).matches > 0

\* C5: jaroWinkler(a, b) = jaroWinkler(b, a), and the scan finds the same
\* number of matches and of transpositions whichever string is str1
C5_JaroWinklerSymmetric ==
    fn = "jaroWinkler" =>
        /\ result = jaroWinkler(str2, str1)
        /\ (str1 # str2 /\ Len(str1) > 0 /\ Len(str2) > 0) =>
            /\ jwMatches(str1, str2).matches = jwMatches(str2, str1).matches
            /\ jwMatches(str1, str2).matches > 0 =>
                  jwTranspositions(str1, str2, jwMatches(str1, str2)).transpositions
                    = jwTranspositions(str2, str1, jwMatches(str2, str1)).transpositions

C5_Witness ==
    /\ fn = "jaroWinkler"
    /\ Len(str1) # Len(str2)
    /\ JwScanned(str1, str2)
    /\ jwTranspositions(str1, str2, jwMatches(str1, str2)).transpositions > 0
    /\ jwMatches(str1, str2).matches < Min(Len(str1), Len(str2))

\* C6: hammingDistance, damerauLevenshtein and longestCommonSubsequence give
\* the same value for (a, b) as for (b, a)
C6_Symmetric ==
    /\ fn = "hammingDistance" => result = Num(hammingDistance(str2, str1))
    /\ fn = "damerauLevenshtein" => result = Num(damerauLevenshtein(str2, str1))
    /\ fn = "longestCommonSubsequence" => result = Num(longestCommonSubsequence(str2, str1))

C6_Witness ==
    /\ fn = "damerauLevenshtein"
    /\ Len(str1) # Len(str2)
    /\ result[1] < distance(str1, str2)
    /\ result[1] > 1

\* every read of the table in damerauLevenshtein is inside the table
dlReadsInside(a, b) ==
    \A i \in 1..Len(a), j \in 1..Len(b) :
        dlTransposed(a, b, i, j) => (i - 2 >= 0 /\ j - 2 >= 0)

\* C8: every metric function returns a number for every pair of strings, the
\* transposition scan of jaroWinkler stops with k < len(str2) and
\* damerauLevenshtein reads inside its table
C8_Total ==
    fn # "none" =>
        /\ IsNumber(result)
        /\ fn # "jaroWinkler" => result[2] = 1
        /\ (fn = "jaroWinkler" /\ JwScanned(str1, str2)) =>
              LET tr == jwTranspositions(str1, str2, jwMatches(str1, str2))
              IN  tr.inBounds /\ tr.k <= Len(str2)
        /\ fn = "damerauLevenshtein" => dlReadsInside(str1, str2)

\* the scan skipped an unmatched position of str2 before a matched one
C8_Witness ==
    /\ fn = "jaroWinkler"
    /\ JwScanned(str1, str2)
    /\ IsNumber(result)
    /\ LET st == jwMatches(str1, str2)
       IN  \E k \in 1..Len(str2), l \in 1..Len(str2) : k < l /\ ~st.m2[k] /\ st.m2[l]

\* ------------------------------------------------------------ C11, C12

\* no character of a equals a character of b at most radius positions away,
\* radius = floor(max(len(a), len(b)) / 2) - 1
NoMatchInWindow(a, b) ==
    LET radius == (Max(Len(a), Len(b)) \div 2) - 1
    IN  \A i \in 1..Len(a), j \in 1..Len(b) :
            (i - j <= radius /\ j - i <= radius) => a[i] # b[j]

PaddedEqual(a, b) ==
    \A k \in 1..Max(Len(a), Len(b)) :
        (IF k <= Len(a) THEN a[k] ELSE " ") = (IF k <= Len(b) THEN b[k] ELSE " ")

\* one of a, b is the other followed by space characters only
OnlyTrailingSpaces(a, b) ==
    LET short == IF Len(a) <= Len(b) THEN a ELSE b
        long == IF Len(a) <= Len(b) THEN b ELSE a
    IN  /\ SubSeq(long, 1, Len(short)) = short
        /\ \A k \in (Len(short) + 1)..Len(long) : long[k] = " "

\* C12: hammingDistance(a, b) = 0 exactly when a and b are equal after the
\* shorter one is right-padded with spaces; strings that differ by trailing
\* spaces only have distance 0
C12_HammingPadding ==
    fn = "hammingDistance" =>
        /\ (result = Num(0)) <=> PaddedEqual(str1, str2)
        /\ OnlyTrailingSpaces(str1, str2) => result = Num(0)

\* two different strings at distance 0, less than the difference of lengths
C12_Witness ==
    /\ fn = "hammingDistance"
    /\ str1 # str2
    /\ Len(str1) > 0
    /\ OnlyTrailingSpaces(str1, str2)
    /\ result = Num(0)
    /\ result[1] < Abs(Len(str1) - Len(str2))

====
